---- MODULE Spec2Model ----
(***************************************************************************)
(* Vision Crafter frontend: the HighlightedPrompt component (keyword       *)
(* scanner and segment sweep) and the App component's generation round     *)
(* (generateImages, the two selection handlers, the description field).    *)
(*                                                                         *)
(* The repository holds three revisions of the App component that the      *)
(* properties below speak about:                                           *)
(*   "part_000"  src/unnamed/part_000   regex scanner, combined response   *)
(*   "part_001"  src/unnamed/part_001   indexOf scanner, index-keyed       *)
(*                                      extracted_features response        *)
(*   "App.js"    src/frontend/src/App.js  image selection only             *)
(* The variable `variant` says which revision is running.                  *)
(*                                                                         *)
(* Strings are sequences of one-character strings.  Indexes into strings   *)
(* are 0-based, as in the source.                                          *)
(***************************************************************************)
EXTENDS Integers, Sequences, FiniteSets, TLC

VARIABLES
    variant,            \* which revision of the component is running
    \* ---- App state (useState cells) ----
    description,
    results,
    loading,
    error,
    selectedImages,     \* selectedPrompts in App.js
    extractedFeatures,
    selectedKeywords,
    \* ---- asynchronous generateImages invocations that are suspended ----
    inflight,
    \* ---- the most recent step of the App and what it saw (history) ----
    last,
    \* ---- one call of HighlightedPrompt ----
    hp

vars == <<variant, description, results, loading, error, selectedImages,
          extractedFeatures, selectedKeywords, inflight, last, hp>>

appVars == <<description, results, loading, error, selectedImages,
             extractedFeatures, selectedKeywords, inflight, last>>

-----------------------------------------------------------------------------
(* Bounds of the model *)

MaxLen == 3         \* longest prompt text given to HighlightedPrompt
MaxKwLen == 2       \* longest keyword of the category "style"
MaxResults == 2     \* longest results list of a response
MaxPrompts == 2     \* longest prompts list of a response

-----------------------------------------------------------------------------
(* Characters and strings *)

WordChars == {"a", "A"}
TextChars == {"a", "A", " "}
KeywordChars == {"a", "A", " ", ".", "("}

RECURSIVE SeqsUpTo(_, _)
SeqsUpTo(S, n) ==
    IF n = 0 THEN {<<>>}
    ELSE LET shorter == SeqsUpTo(S, n - 1)
         IN  shorter \cup {Append(s, c) : s \in {t \in shorter : Len(t) = n - 1}, c \in S}

IsWordChar(c) == c \in WordChars

LowerChar(c) == IF c = "A" THEN "a" ELSE c

toLowerCase(s) == [i \in 1..Len(s) |-> LowerChar(s[i])]

Min(a, b) == IF a < b THEN a ELSE b
Max(a, b) == IF a > b THEN a ELSE b

\* String.prototype.substring(a, b): both ends clamped to [0, length], swapped
\* when a > b.
substring(s, a, b) ==
    LET ca == Max(0, Min(a, Len(s)))
        cb == Max(0, Min(b, Len(s)))
        lo == Min(ca, cb)
        hi == Max(ca, cb)
    IN  SubSeq(s, lo + 1, hi)

IsWhitespace(c) == c = " "

RECURSIVE trimStart(_)
trimStart(s) ==
    IF s # <<>> /\ IsWhitespace(Head(s)) THEN trimStart(Tail(s)) ELSE s

RECURSIVE trimEnd(_)
trimEnd(s) ==
    IF s # <<>> /\ IsWhitespace(s[Len(s)]) THEN trimEnd(SubSeq(s, 1, Len(s) - 1)) ELSE s

trim(s) == trimEnd(trimStart(s))

\* A membership test that looks at the first element only.
includes_FirstOnly(list, v) == list # <<>> /\ list[1] = v

\* A membership test that ignores case.
includes_IgnoresCase(list, v) == \E i \in 1..Len(list) : toLowerCase(list[i]) = toLowerCase(v)

\* Array.prototype.includes
includes(list, v) == \E i \in 1..Len(list) : list[i] = v

filterOut(list, v) == SelectSeq(list, LAMBDA x : x # v)

ToSet(list) == {list[i] : i \in 1..Len(list)}

-----------------------------------------------------------------------------
(* HighlightedPrompt: the occurrence scanner *)

\* `\b` at 0-based position j of text: exactly one of the characters before and
\* after the position is a word character (outside the text counts as non-word).
WordBoundaryAt(text, j) ==
    LET before == j >= 1 /\ j <= Len(text) /\ IsWordChar(text[j])
        after  == j >= 0 /\ j < Len(text) /\ IsWordChar(text[j + 1])
    IN  before # after

\* One pattern character against one text character under the `i` flag:
\* `.` matches any character, every other character matches itself up to case.
PatternCharMatches(pc, tc) ==
    \/ pc = "."
    \/ LowerChar(pc) = LowerChar(tc)

\* new RegExp(`\\b${keyword}\\b`, 'gi') does not compile when the keyword holds
\* an unbalanced parenthesis.
RegExpThrows(keyword) == \E i \in 1..Len(keyword) : keyword[i] = "("

\* The pattern \b keyword \b matches text at 0-based index i.
RegExpMatchesAt(keyword, text, i) ==
    /\ i >= 0
    /\ i + Len(keyword) <= Len(text)
    /\ WordBoundaryAt(text, i)
    /\ \A k \in 1..Len(keyword) : PatternCharMatches(keyword[k], text[i + k])
    /\ WordBoundaryAt(text, i + Len(keyword))

\* regex.exec(prompt) with regex.lastIndex = from: index of the leftmost match
\* at or after from, or -1.
RegExpExec(keyword, text, from) ==
    LET hits == {i \in from..Len(text) : RegExpMatchesAt(keyword, text, i)}
    IN  IF hits = {} THEN -1 ELSE CHOOSE i \in hits : \A j \in hits : i <= j

\* String.prototype.indexOf(needle, from)
indexOf(text, needle, from) ==
    LET start == Max(0, from)
        hits == {i \in start..(Len(text) - Len(needle)) :
                    SubSeq(text, i + 1, i + Len(needle)) = needle}
    IN  IF hits = {} THEN -1 ELSE CHOOSE i \in hits : \A j \in hits : i <= j

Occurrence(prompt, keyword, category, index) ==
    [keyword    |-> substring(prompt, index, index + Len(keyword)),
     category   |-> category,
     startIndex |-> index,
     endIndex   |-> index + Len(keyword)]

\* part_000: the while loop around regex.exec; a global regex resumes at the
\* end of the previous match.
RECURSIVE RegExpOccurrences(_, _, _, _)
RegExpOccurrences(prompt, keyword, category, from) ==
    LET index == RegExpExec(keyword, prompt, from)
    IN  IF index = -1 THEN <<>>
        ELSE <<Occurrence(prompt, keyword, category, index)>>
             \o RegExpOccurrences(prompt, keyword, category, index + Len(keyword))

\* part_001: the while loop around indexOf; the search resumes one character
\* after the previous hit.
RECURSIVE IndexOfOccurrences(_, _, _, _)
IndexOfOccurrences(prompt, keyword, category, from) ==
    LET index == indexOf(toLowerCase(prompt), toLowerCase(keyword), from)
    IN  IF index = -1 THEN <<>>
        ELSE <<Occurrence(prompt, keyword, category, index)>>
             \o IndexOfOccurrences(prompt, keyword, category, index + 1)

KeywordOccurrencesOf(v, prompt, keyword, category) ==
    IF keyword = <<>> THEN <<>>
    ELSE IF v = "part_000" THEN RegExpOccurrences(prompt, keyword, category, 0)
    ELSE IndexOfOccurrences(prompt, keyword, category, 0)

\* A category whose value is not an array: part_000 skips it; part_001 calls
\* features[category].forEach on it, which throws.
KeywordThrows(v, keyword) == v = "part_000" /\ keyword # <<>> /\ RegExpThrows(keyword)

CategoryThrows(v, entry) ==
    IF ~entry.isArray THEN v # "part_000"
    ELSE \E k \in 1..Len(entry.keywords) : KeywordThrows(v, entry.keywords[k])

RECURSIVE CategoryOccurrences(_, _, _, _)
CategoryOccurrences(v, prompt, entry, k) ==
    IF ~entry.isArray \/ k > Len(entry.keywords) THEN <<>>
    ELSE KeywordOccurrencesOf(v, prompt, entry.keywords[k], entry.category)
         \o CategoryOccurrences(v, prompt, entry, k + 1)

\* featureCategories.forEach(...): the categories in Object.keys order.
RECURSIVE CollectOccurrences(_, _, _, _)
CollectOccurrences(v, prompt, entries, c) ==
    IF c > Len(entries) THEN <<>>
    ELSE CategoryOccurrences(v, prompt, entries[c], 1)
         \o CollectOccurrences(v, prompt, entries, c + 1)

ScanThrows(v, entries) == \E c \in 1..Len(entries) : CategoryThrows(v, entries[c])

-----------------------------------------------------------------------------
(* HighlightedPrompt: the sort and the sweep *)

\* The comparator of keywordOccurrences.sort: (a, b) => a.startIndex - b.startIndex
CompareOccurrences(a, b) == a.startIndex - b.startIndex

RECURSIVE InsertSorted(_, _)
InsertSorted(sorted, x) ==
    IF sorted = <<>> THEN <<x>>
    ELSE IF CompareOccurrences(sorted[Len(sorted)], x) <= 0 THEN Append(sorted, x)
    ELSE Append(InsertSorted(SubSeq(sorted, 1, Len(sorted) - 1), x), sorted[Len(sorted)])

\* Array.prototype.sort is stable: equal elements keep their order.
RECURSIVE SortOccurrences(_)
SortOccurrences(occs) ==
    IF occs = <<>> THEN <<>>
    ELSE InsertSorted(SortOccurrences(SubSeq(occs, 1, Len(occs) - 1)), occs[Len(occs)])

\* A plain part that starts one character late.
TextPart_SkipsFirst(prompt, from, to) ==
    [annotated |-> FALSE, text |-> substring(prompt, from + 1, to), category |-> "",
     startIndex |-> from, isSelected |-> FALSE]

\* <span>{prompt.substring(from, to)}</span>
TextPart(prompt, from, to) ==
    [annotated |-> FALSE, text |-> substring(prompt, from, to), category |-> "",
     startIndex |-> from, isSelected |-> FALSE]

HighlightPart(occurrence, selected) ==
    [annotated |-> TRUE, text |-> occurrence.keyword, category |-> occurrence.category,
     startIndex |-> occurrence.startIndex,
     isSelected |-> includes(selected, occurrence.keyword)]

\* The parts one occurrence adds in the forEach of the sweep.
SweepParts(prompt, lastIndex, occurrence, selected) ==
    (IF occurrence.startIndex > lastIndex
        THEN <<TextPart(prompt, lastIndex, occurrence.startIndex)>>
        ELSE <<>>)
    \o <<HighlightPart(occurrence, selected)>>

SweepLastIndex(lastIndex, occurrence) == occurrence.endIndex

\* The text after the last highlight.
TailParts(prompt, lastIndex) ==
    IF lastIndex < Len(prompt) THEN <<TextPart(prompt, lastIndex, Len(prompt))>> ELSE <<>>

\* What the component returns: the bare prompt when nothing was produced and
\* the prompt is not empty, the parts otherwise.
ReturnedParts(prompt, parts) ==
    IF parts = <<>> /\ prompt # <<>> THEN <<TextPart(prompt, 0, Len(prompt))>> ELSE parts

RECURSIVE ConcatText(_)
ConcatText(parts) ==
    IF parts = <<>> THEN <<>> ELSE Head(parts).text \o ConcatText(Tail(parts))

\* The whole component as a function (used where the App renders its gallery).
RECURSIVE SweepAll(_, _, _, _, _)
SweepAll(prompt, occs, i, lastIndex, selected) ==
    IF i > Len(occs) THEN TailParts(prompt, lastIndex)
    ELSE SweepParts(prompt, lastIndex, occs[i], selected)
         \o SweepAll(prompt, occs, i + 1, SweepLastIndex(lastIndex, occs[i]), selected)

RenderedParts(v, prompt, features, selected) ==
    IF ~features.present THEN <<TextPart(prompt, 0, Len(prompt))>>
    ELSE ReturnedParts(prompt,
            SweepAll(prompt,
                     SortOccurrences(CollectOccurrences(v, prompt, features.entries, 1)),
                     1, 0, selected))

-----------------------------------------------------------------------------
(* One call of HighlightedPrompt, step by step *)

Categories == <<"style", "subject">>

Keywords(n) == SeqsUpTo(KeywordChars, n)

\* The value of one category: something that is not an array, or a list of at
\* most one keyword (the empty keyword included).
CategoryValues(category, keywords) ==
    {[category |-> category, isArray |-> FALSE, keywords |-> <<>>]}
    \cup {[category |-> category, isArray |-> TRUE, keywords |-> ks] :
            ks \in {<<>>} \cup {<<k>> : k \in keywords}}

\* "style" holds any keyword up to MaxKwLen, "subject" a one-character keyword.
\* and the keyword "a a", which occurs twice in the prompt "a a a", the two
\* occurrences sharing the middle "a".
OverlapKeyword == <<"a", " ", "a">>
OverlapPrompt == <<"a", " ", "a", " ", "a">>
StyleValues == CategoryValues(Categories[1], Keywords(MaxKwLen) \cup {OverlapKeyword})
SubjectValues == CategoryValues(Categories[2], {<<c>> : c \in KeywordChars})

\* The features prop: absent, or an object with the two categories in either
\* key order.
FeatureInputs ==
    {[present |-> FALSE, entries |-> <<>>]}
    \cup {[present |-> TRUE, entries |-> <<a, b>>] : a \in StyleValues, b \in SubjectValues}
    \cup {[present |-> TRUE, entries |-> <<b, a>>] : a \in StyleValues, b \in SubjectValues}

HPIdle ==
    [pc |-> "idle", prompt |-> <<>>, features |-> [present |-> FALSE, entries |-> <<>>],
     keywordOccurrences |-> <<>>, parts |-> <<>>, lastIndex |-> 0, i |-> 1]

\* Entry of the component: no features, no scan.
HPCall ==
    /\ hp.pc = "call"
    /\ hp' = IF ~hp.features.present
                THEN [hp EXCEPT !.pc = "done",
                                !.parts = <<TextPart(hp.prompt, 0, Len(hp.prompt))>>]
                ELSE [hp EXCEPT !.pc = "scan"]
    /\ UNCHANGED <<variant, appVars>>

\* featureCategories.forEach: collect every occurrence, or die on an exception.
HPScan ==
    /\ hp.pc = "scan"
    /\ hp' = IF ScanThrows(variant, hp.features.entries)
                THEN [hp EXCEPT !.pc = "threw"]
                ELSE [hp EXCEPT !.pc = "sort",
                                !.keywordOccurrences =
                                    CollectOccurrences(variant, hp.prompt, hp.features.entries, 1)]
    /\ UNCHANGED <<variant, appVars>>

\* keywordOccurrences.sort(...); let lastIndex = 0
HPSort ==
    /\ hp.pc = "sort"
    /\ hp' = [hp EXCEPT !.pc = "sweep",
                        !.keywordOccurrences = SortOccurrences(hp.keywordOccurrences),
                        !.lastIndex = 0,
                        !.i = 1]
    /\ UNCHANGED <<variant, appVars>>

\* One iteration of keywordOccurrences.forEach(occurrence => ...)
HPSweepStep ==
    /\ hp.pc = "sweep"
    /\ hp.i <= Len(hp.keywordOccurrences)
    /\ LET occurrence == hp.keywordOccurrences[hp.i]
       IN  hp' = [hp EXCEPT
                    !.parts = hp.parts \o SweepParts(hp.prompt, hp.lastIndex, occurrence,
                                                     selectedKeywords),
                    !.lastIndex = SweepLastIndex(hp.lastIndex, occurrence),
                    !.i = hp.i + 1]
    /\ UNCHANGED <<variant, appVars>>

\* After the loop: the remaining text and the returned element.
HPTail ==
    /\ hp.pc = "sweep"
    /\ hp.i > Len(hp.keywordOccurrences)
    /\ hp' = [hp EXCEPT
                !.pc = "done",
                !.parts = ReturnedParts(hp.prompt,
                                        hp.parts \o TailParts(hp.prompt, hp.lastIndex))]
    /\ UNCHANGED <<variant, appVars>>

-----------------------------------------------------------------------------
(* The App component: what the user can type and what the service can answer *)

\* What the user types: nothing, a blank, a word.
Descriptions == {<<>>, <<" ">>, <<"d">>}

\* The prompt text the service answers with ("A a") and the feature object it
\* extracts for it: the keyword "a" is found twice, as "A" and as "a".
ResponsePrompts == {<<"A", " ", "a">>}
ResponseFeatures ==
    [present |-> TRUE,
     entries |-> <<[category |-> "style", isArray |-> TRUE, keywords |-> << <<"a">> >>]>>]
NoFeatures == [present |-> FALSE, entries |-> <<>>]
EmptyFeatures == [present |-> TRUE, entries |-> <<>>]         \* the object {}

ResultItems == {[prompt |-> p, url |-> "u"] : p \in ResponsePrompts}
ResultLists == SeqsUpTo(ResultItems, MaxResults)

PromptObjs ==
    {[isObject |-> TRUE, text |-> p, hasFeatures |-> h,
      features |-> IF h THEN ResponseFeatures ELSE NoFeatures] :
        p \in ResponsePrompts, h \in BOOLEAN}
PromptLists == SeqsUpTo(PromptObjs, MaxPrompts)

\* What the service means to say: a result list or none, a prompts list, none or
\* something that is no list, and whether the feature data is there at all.
Answer(hr, rs, pk, ps, he) ==
    [hasResults |-> hr, results |-> IF hr THEN rs ELSE <<>>,
     promptsKind |-> pk, prompts |-> IF pk = "list" THEN ps ELSE <<>>,
     hasExtracted |-> he]

\* App.js reads results only; part_000 reads results and prompts; part_001 reads
\* extracted_features as well.
AnswersResultsOnly ==
    {Answer(hr, rs, "absent", <<>>, FALSE) : hr \in BOOLEAN, rs \in ResultLists}

AnswersCombined ==
    {Answer(hr, rs, pk, ps, FALSE) :
        hr \in BOOLEAN, rs \in ResultLists, pk \in {"absent", "list", "bad"},
        ps \in PromptLists}

AnswersIndexed ==
    {Answer(hr, rs, pk, ps, he) :
        hr \in BOOLEAN, rs \in ResultLists, pk \in {"absent", "list", "bad"},
        ps \in PromptLists, he \in BOOLEAN}

Answers(v) ==
    IF v = "App.js" THEN AnswersResultsOnly
    ELSE IF v = "part_001" THEN AnswersIndexed
    ELSE AnswersCombined

\* The alternate wire shape: prompts is a flat list of texts and
\* extracted_features maps the index of a prompt to its features.
FlatPrompts(prompts) ==
    [i \in 1..Len(prompts) |->
        [isObject |-> FALSE, text |-> prompts[i].text, hasFeatures |-> FALSE,
         features |-> NoFeatures]]

IndexKeyed(prompts) ==
    [k \in {i - 1 : i \in {j \in 1..Len(prompts) : prompts[j].hasFeatures}}
        |-> prompts[k + 1].features]

\* The response body on the wire in one of the two shapes: "alternate" (flat
\* prompts and extracted_features) or "combined" (prompts of {text, features}).
WireShape(shape, answer) ==
    IF shape = "alternate"
    THEN [hasResults |-> answer.hasResults, results |-> answer.results,
          promptsKind |-> answer.promptsKind, prompts |-> FlatPrompts(answer.prompts),
          hasExtracted |-> answer.hasExtracted,
          extracted_features |-> IF answer.hasExtracted THEN IndexKeyed(answer.prompts)
                                 ELSE <<>>]
    ELSE [hasResults |-> answer.hasResults, results |-> answer.results,
          promptsKind |-> answer.promptsKind, prompts |-> answer.prompts,
          hasExtracted |-> FALSE, extracted_features |-> <<>>]

\* The shape the backend of a revision answers in.
ShapeServed(v) == IF v = "part_001" THEN "alternate" ELSE "combined"

\* The response body on the wire, in the shape the running revision is served.
WireBody(v, answer) == WireShape(ShapeServed(v), answer)

\* The texts of the prompts a response body lists.
ResponsePromptTexts(data) == {data.prompts[i].text : i \in 1..Len(data.prompts)}

\* Property keys JavaScript makes of a missing property and of an object.
Undefined == <<"undefined">>
ObjectKey == <<"[object Object]">>

\* promptObj.text and promptObj.features || {} of part_000
TextOf(promptObj) == IF promptObj.isObject THEN promptObj.text ELSE Undefined
FeaturesOf(promptObj) ==
    IF promptObj.isObject /\ promptObj.hasFeatures THEN promptObj.features
    ELSE EmptyFeatures

\* The key of featuresByPrompt[prompt] in part_001
KeyOf(prompt) == IF prompt.isObject THEN ObjectKey ELSE prompt.text

EmptyLookup == [p \in {} |-> NoFeatures]

\* A store that keeps the entry a key already has.
Put_FirstWins(lookup, key, value) ==
    IF key \in DOMAIN lookup THEN lookup
    ELSE [p \in DOMAIN lookup \cup {key} |-> IF p = key THEN value ELSE lookup[p]]

\* featuresByPrompt[key] = value
Put(lookup, key, value) ==
    [p \in DOMAIN lookup \cup {key} |-> IF p = key THEN value ELSE lookup[p]]

\* part_000: featuresByPrompt[promptObj.text] = promptObj.features || {}
RECURSIVE MapCombined(_, _, _)
MapCombined(prompts, i, lookup) ==
    IF i > Len(prompts) THEN lookup
    ELSE MapCombined(prompts, i + 1,
            Put(lookup, TextOf(prompts[i]), FeaturesOf(prompts[i])))

\* An index-keyed mapping that counts the prompts from one.
RECURSIVE MapIndexed_OneBased(_, _, _, _)
MapIndexed_OneBased(prompts, extracted, i, lookup) ==
    IF i > Len(prompts) THEN lookup
    ELSE MapIndexed_OneBased(prompts, extracted, i + 1,
            Put(lookup, KeyOf(prompts[i]),
                IF i \in DOMAIN extracted THEN extracted[i] ELSE EmptyFeatures))

\* part_001: featuresByPrompt[prompt] = extracted_features[index] when the index
\* is a key of extracted_features, {} otherwise.
RECURSIVE MapIndexed(_, _, _, _)
MapIndexed(prompts, extracted, i, lookup) ==
    IF i > Len(prompts) THEN lookup
    ELSE MapIndexed(prompts, extracted, i + 1,
            Put(lookup, KeyOf(prompts[i]),
                IF (i - 1) \in DOMAIN extracted THEN extracted[i - 1] ELSE EmptyFeatures))

FeaturesByPrompt(v, data) ==
    IF v = "part_001" THEN MapIndexed(data.prompts, data.extracted_features, 1, EmptyLookup)
    ELSE MapCombined(data.prompts, 1, EmptyLookup)

\* The test on the parsed body that decides between commit and throw.
ResponseAccepted(v, data) ==
    IF v = "part_000" THEN data.hasResults /\ data.promptsKind # "absent"
    ELSE IF v = "part_001"
        THEN data.hasResults /\ data.promptsKind # "absent" /\ data.hasExtracted
    ELSE data.hasResults

\* Revisions that read data.prompts.
ReadsPrompts(v) == v \in {"part_000", "part_001"}

\* extractedFeatures[item.prompt]
FeaturesFor(lookup, prompt) ==
    IF prompt \in DOMAIN lookup THEN lookup[prompt] ELSE NoFeatures

-----------------------------------------------------------------------------
(* The App component: handlers *)

\* A toggle that forgets the deselect branch.
Toggle_NeverRemoves(list, v) == Append(list, v)

\* The body of handleImageSelect and of handleFeatureSelect.
Toggle(list, v) ==
    IF includes(list, v) THEN filterOut(list, v) ELSE Append(list, v)

\* A button that stays enabled while a round is loading.
ButtonDisabled_IgnoresLoading(v, isLoading, desc, images, keywords) ==
    IF v = "App.js" THEN Len(images) = 0 /\ desc = <<>>
    ELSE desc = <<>> /\ Len(images) = 0 /\ Len(keywords) = 0

\* disabled={...} of the generate button.
ButtonDisabled(v, isLoading, desc, images, keywords) ==
    IF v = "App.js" THEN isLoading \/ (Len(images) = 0 /\ desc = <<>>)
    ELSE isLoading \/ (desc = <<>> /\ Len(images) = 0 /\ Len(keywords) = 0)

\* The test in generateImages that ends the attempt before any request.
IsInitialAttempt(v, desc, images, keywords) ==
    IF v = "App.js" THEN Len(images) = 0 /\ (desc = <<>> \/ trim(desc) = <<>>)
    ELSE desc = <<>> /\ Len(images) = 0 /\ Len(keywords) = 0

\* A request body built before the keyword feedback existed: the liked keywords
\* are left out.
RequestBody_NoKeywords(v, desc, images, keywords) ==
    IF v = "App.js"
    THEN [description |-> desc, hasFeedback |-> FALSE,
          liked_prompts |-> <<>>, liked_style_keywords |-> <<>>,
          hasSelectedPrompts |-> Len(images) > 0, selected_prompts |-> images]
    ELSE [description |-> desc, hasFeedback |-> TRUE,
          liked_prompts |-> images, liked_style_keywords |-> <<>>,
          hasSelectedPrompts |-> FALSE, selected_prompts |-> <<>>]

\* requestBody of generateImages
RequestBody(v, desc, images, keywords) ==
    IF v = "App.js"
    THEN [description |-> desc, hasFeedback |-> FALSE,
          liked_prompts |-> <<>>, liked_style_keywords |-> <<>>,
          hasSelectedPrompts |-> Len(images) > 0, selected_prompts |-> images]
    ELSE [description |-> desc, hasFeedback |-> TRUE,
          liked_prompts |-> images, liked_style_keywords |-> keywords,
          hasSelectedPrompts |-> FALSE, selected_prompts |-> <<>>]

\* App.js empties results at the start of every attempt; the later revisions do not.
ResultsOnSubmit(v, current) == IF v = "App.js" THEN <<>> ELSE current

\* A submit that leaves the previous error on display.
ErrorOnSubmit_Kept(current) == current

\* setError(null) at the start of generateImages.
ErrorOnSubmit(current) == "null"

\* A commit that adds the new results to the ones on display.
CommittedResults_Merged(current, incoming) == current \o incoming

\* setResults(data.results)
CommittedResults(current, incoming) == incoming

\* A commit that leaves the selection alone.
CommittedSelection_Kept(current) == current

\* setSelectedImages([]) and setSelectedKeywords([]) after a commit.
CommittedSelection(current) == <<>>

\* The history of the most recent step: its name, how a round failed, the
\* handler's argument, the selections just before the step, whether they had
\* changed since the round's submit, results and extractedFeatures just before
\* the round's submit, and for a toggle whether the step before it was the same
\* toggle and the selection before that one, and for a user event the error
\* just before it; for a commit the result list and the prompt texts of the
\* response, and whether results and extractedFeatures both held something
\* before the round; for the end of a round the body it was served, where that
\* was fixed beforehand.
NoServed == [present |-> FALSE, shape |-> "", answer |-> Answer(FALSE, <<>>, "absent", <<>>, FALSE)]

NoEvent ==
    [ev |-> "none", kind |-> "", arg |-> <<>>, images |-> <<>>, keywords |-> <<>>,
     changed |-> FALSE, preResults |-> <<>>, preFeatures |-> EmptyLookup,
     twice |-> FALSE, base |-> <<>>, err |-> "null",
     dataResults |-> <<>>, dataPrompts |-> {}, preHeld |-> FALSE, served |-> NoServed]

SentImages(body) == IF body.hasFeedback THEN body.liked_prompts ELSE body.selected_prompts

RoundEvent(name, kind, call) ==
    [NoEvent EXCEPT !.ev = name, !.kind = kind,
                    !.images = selectedImages, !.keywords = selectedKeywords,
                    !.changed = \/ SentImages(call.body) # selectedImages
                                \/ call.body.liked_style_keywords # selectedKeywords,
                    !.preResults = IF name = "committed" THEN <<>> ELSE call.preResults,
                    !.preFeatures = IF name = "committed" THEN EmptyLookup
                                    ELSE call.preFeatures,
                    !.preHeld = /\ name = "committed"
                                /\ call.preResults # <<>>
                                /\ call.preFeatures # EmptyLookup,
                    !.served = call.served]

\* onChange of the textarea
setDescription(d) ==
    /\ d # description
    /\ description' = d
    /\ last' = [NoEvent EXCEPT !.ev = "setDescription", !.arg = d, !.err = error]
    /\ UNCHANGED <<variant, results, loading, error, selectedImages, extractedFeatures,
                   selectedKeywords, inflight, hp>>

\* An image toggle that also empties the keyword selection.
handleImageSelect_ClearsKeywords(prompt) ==
    /\ \E i \in 1..Len(results) : results[i].prompt = prompt
    /\ selectedImages' = Toggle(selectedImages, prompt)
    /\ selectedKeywords' = <<>>
    /\ last' = [NoEvent EXCEPT !.ev = "handleImageSelect", !.arg = prompt,
                                !.images = selectedImages, !.keywords = selectedKeywords,
                                !.err = error]
    /\ UNCHANGED <<variant, description, results, loading, error, extractedFeatures,
                   inflight, hp>>

\* onClick of a gallery item's image
handleImageSelect(prompt) ==
    /\ \E i \in 1..Len(results) : results[i].prompt = prompt
    /\ selectedImages' = Toggle(selectedImages, prompt)
    /\ LET again == last.ev = "handleImageSelect" /\ last.arg = prompt
       IN  last' = [NoEvent EXCEPT !.ev = "handleImageSelect", !.arg = prompt,
                                   !.images = selectedImages, !.keywords = selectedKeywords,
                                   !.twice = again,
                                   !.base = IF again THEN last.images ELSE <<>>,
                                   !.err = error]
    /\ UNCHANGED <<variant, description, results, loading, error, extractedFeatures,
                   selectedKeywords, inflight, hp>>

\* The keywords of the highlighted spans the gallery shows.
ClickableKeywords ==
    IF variant = "App.js" THEN {}
    ELSE UNION {
            {part.text : part \in
                {q \in ToSet(RenderedParts(variant, results[i].prompt,
                                           FeaturesFor(extractedFeatures, results[i].prompt),
                                           selectedKeywords)) : q.annotated}}
            : i \in 1..Len(results)}

\* A keyword toggle that changes the array the outstanding request body holds.
handleFeatureSelect_RewritesRequest(keyword) ==
    /\ keyword \in ClickableKeywords
    /\ selectedKeywords' = Toggle(selectedKeywords, keyword)
    /\ inflight' = [k \in 1..Len(inflight) |->
                        [inflight[k] EXCEPT !.body.liked_style_keywords =
                                                Toggle(selectedKeywords, keyword)]]
    /\ last' = [NoEvent EXCEPT !.ev = "handleFeatureSelect", !.arg = keyword,
                                !.images = selectedImages, !.keywords = selectedKeywords,
                                !.err = error]
    /\ UNCHANGED <<variant, description, results, loading, error, selectedImages,
                   extractedFeatures, hp>>

\* onClick of a highlighted span
handleFeatureSelect(keyword) ==
    /\ keyword \in ClickableKeywords
    /\ selectedKeywords' = Toggle(selectedKeywords, keyword)
    /\ LET again == last.ev = "handleFeatureSelect" /\ last.arg = keyword
       IN  last' = [NoEvent EXCEPT !.ev = "handleFeatureSelect", !.arg = keyword,
                                   !.images = selectedImages, !.keywords = selectedKeywords,
                                   !.twice = again,
                                   !.base = IF again THEN last.keywords ELSE <<>>,
                                   !.err = error]
    /\ UNCHANGED <<variant, description, results, loading, error, selectedImages,
                   extractedFeatures, inflight, hp>>

\* onClick of the generate button: generateImages up to its first await, or up
\* to the return after the validation message.
generateImages ==
    /\ ~ButtonDisabled(variant, loading, description, selectedImages, selectedKeywords)
    /\ results' = ResultsOnSubmit(variant, results)
    /\ LET call == [body |-> RequestBody(variant, description, selectedImages,
                                         selectedKeywords),
                    stage |-> "fetch",
                    preResults |-> results,
                    preFeatures |-> extractedFeatures,
                    served |-> NoServed]
       IN  IF IsInitialAttempt(variant, description, selectedImages, selectedKeywords)
           THEN /\ error' = "validation"
                /\ loading' = FALSE
                /\ inflight' = inflight
                /\ last' = [RoundEvent("invalid", "", call) EXCEPT !.err = error]
           ELSE /\ error' = ErrorOnSubmit(error)
                /\ loading' = TRUE
                /\ inflight' = Append(inflight, call)
                /\ last' = [RoundEvent("submitted", "", call) EXCEPT !.err = error]
    /\ UNCHANGED <<variant, description, selectedImages, extractedFeatures,
                   selectedKeywords, hp>>

Remove(list, k) == SubSeq(list, 1, k - 1) \o SubSeq(list, k + 1, Len(list))

\* A catch without the finally block: the loading flag is never reset.
Caught_StaysLoading(k, kind) ==
    /\ error' = "failed"
    /\ loading' = loading
    /\ inflight' = Remove(inflight, k)
    /\ last' = RoundEvent("failed", kind, inflight[k])

\* catch (err) { setError(...) } finally { setLoading(false) }
Caught(k, kind) ==
    /\ error' = "failed"
    /\ loading' = FALSE
    /\ inflight' = Remove(inflight, k)
    /\ last' = RoundEvent("failed", kind, inflight[k])

\* The fetch promise settles: rejected (no response), or resolved with a status.
fetchSettles(k, outcome) ==
    /\ k \in 1..Len(inflight)
    /\ inflight[k].stage = "fetch"
    /\ IF outcome = "rejected"
       THEN /\ Caught(k, "transport")
            /\ UNCHANGED <<results, selectedImages, extractedFeatures, selectedKeywords>>
       ELSE /\ inflight' = [inflight EXCEPT ![k].stage = outcome]
            /\ last' = [NoEvent EXCEPT !.ev = "fetchSettled"]
            /\ UNCHANGED <<results, loading, error, selectedImages, extractedFeatures,
                           selectedKeywords>>
    /\ UNCHANGED <<variant, description, hp>>

\* response.json() settles after a non-success status: the error is thrown
\* whatever the body was.
errorBodySettles(k) ==
    /\ k \in 1..Len(inflight)
    /\ inflight[k].stage = "notOk"
    /\ Caught(k, "status")
    /\ UNCHANGED <<variant, description, results, selectedImages, extractedFeatures,
                   selectedKeywords, hp>>

\* response.json() rejects after a success status: the body is no JSON.
jsonRejects(k) ==
    /\ k \in 1..Len(inflight)
    /\ inflight[k].stage = "ok"
    /\ Caught(k, "json")
    /\ UNCHANGED <<variant, description, results, selectedImages, extractedFeatures,
                   selectedKeywords, hp>>

\* generateImages from the parsed body on: commit, or throw.
Settle(k, data) ==
    IF ~ResponseAccepted(variant, data)
    THEN /\ Caught(k, "missing")
         /\ UNCHANGED <<results, selectedImages, extractedFeatures, selectedKeywords>>
    ELSE IF ReadsPrompts(variant) /\ data.promptsKind = "bad"
    THEN \* setResults ran, then data.prompts.forEach threw
         /\ results' = CommittedResults(results, data.results)
         /\ Caught(k, "malformed")
         /\ UNCHANGED <<selectedImages, extractedFeatures, selectedKeywords>>
    ELSE /\ results' = CommittedResults(results, data.results)
         /\ extractedFeatures' = IF ReadsPrompts(variant)
                                    THEN FeaturesByPrompt(variant, data)
                                    ELSE extractedFeatures
         /\ selectedImages' = CommittedSelection(selectedImages)
         /\ selectedKeywords' = CommittedSelection(selectedKeywords)
         /\ loading' = FALSE
         /\ error' = error
         /\ inflight' = Remove(inflight, k)
         /\ last' = [RoundEvent("committed", "", inflight[k]) EXCEPT
                        !.dataResults = data.results,
                        !.dataPrompts = ResponsePromptTexts(data)]

\* response.json() resolves after a success status, with whatever the service
\* answers in the shape this revision is served.
jsonSettles(k, answer) ==
    /\ k \in 1..Len(inflight)
    /\ inflight[k].stage = "ok"
    /\ ~inflight[k].served.present
    /\ Settle(k, WireBody(variant, answer))
    /\ UNCHANGED <<variant, description, hp>>

\* response.json() resolves with the body the response was served with.
jsonSettlesServed(k) ==
    /\ k \in 1..Len(inflight)
    /\ inflight[k].stage = "ok"
    /\ inflight[k].served.present
    /\ Settle(k, WireShape(inflight[k].served.shape, inflight[k].served.answer))
    /\ UNCHANGED <<variant, description, hp>>

-----------------------------------------------------------------------------
(* Specifications *)

Variants == {"part_000", "part_001", "App.js"}

\* The revisions that have the HighlightedPrompt component.
HPVariants == {"part_000", "part_001"}

AppInit ==
    /\ description = <<>>
    /\ results = <<>>
    /\ loading = FALSE
    /\ error = "null"
    /\ selectedImages = <<>>
    /\ extractedFeatures = EmptyLookup
    /\ selectedKeywords = <<>>
    /\ inflight = <<>>
    /\ last = NoEvent

\* The App after mounting.
Init ==
    /\ variant \in Variants
    /\ AppInit
    /\ hp = HPIdle

Next ==
    \/ \E d \in Descriptions : setDescription(d)
    \/ \E p \in ResponsePrompts : handleImageSelect(p)
    \/ \E kw \in ClickableKeywords : handleFeatureSelect(kw)
    \/ generateImages
    \/ \E k \in 1..Len(inflight), outcome \in {"rejected", "ok", "notOk"} :
            fetchSettles(k, outcome)
    \/ \E k \in 1..Len(inflight) : errorBodySettles(k)
    \/ \E k \in 1..Len(inflight) : jsonRejects(k)
    \/ \E k \in 1..Len(inflight), answer \in Answers(variant) : jsonSettles(k, answer)

Spec == Init /\ [][Next]_vars

\* HighlightedPrompt called with any prompt and any features prop.
InitHP ==
    /\ variant \in HPVariants
    /\ AppInit
    /\ \E p \in SeqsUpTo(TextChars, MaxLen) \cup {OverlapPrompt}, f \in FeatureInputs :
            hp = [HPIdle EXCEPT !.pc = "call", !.prompt = p, !.features = f]

NextHP ==
    \/ HPCall
    \/ HPScan
    \/ HPSort
    \/ HPSweepStep
    \/ HPTail

SpecHP == InitHP /\ [][NextHP]_vars

Shapes == {"combined", "alternate"}

\* The bodies a response can be served with: as AnswersIndexed, with a second
\* prompt text ("a") so that a response can list two different texts.
WirePromptObjs ==
    {[isObject |-> TRUE, text |-> p, hasFeatures |-> h,
      features |-> IF h THEN ResponseFeatures ELSE NoFeatures] :
        p \in ResponsePrompts \cup {<<"a">>}, h \in BOOLEAN}

WireAnswers ==
    {Answer(hr, rs, pk, ps, he) :
        hr \in BOOLEAN, rs \in ResultLists, pk \in {"absent", "list", "bad"},
        ps \in SeqsUpTo(WirePromptObjs, MaxPrompts), he \in BOOLEAN}

\* The first round of a revision that holds a lookup, at the point where the
\* response has arrived with a success status and its body, in either shape,
\* is still to be read.
InitWire ==
    /\ variant \in HPVariants
    /\ description = <<"d">>
    /\ results = <<>>
    /\ loading = TRUE
    /\ error = "null"
    /\ selectedImages = <<>>
    /\ extractedFeatures = EmptyLookup
    /\ selectedKeywords = <<>>
    /\ \E shape \in Shapes, answer \in WireAnswers :
            inflight = <<[body |-> RequestBody(variant, <<"d">>, <<>>, <<>>),
                          stage |-> "ok",
                          preResults |-> <<>>,
                          preFeatures |-> EmptyLookup,
                          served |-> [present |-> TRUE, shape |-> shape,
                                      answer |-> answer]]>>
    /\ last = [NoEvent EXCEPT !.ev = "fetchSettled"]
    /\ hp = HPIdle

NextWire == \E k \in 1..Len(inflight) : jsonSettlesServed(k)

SpecWire == InitWire /\ [][NextWire]_vars

-----------------------------------------------------------------------------
(* Properties of HighlightedPrompt (checked under SpecHP) *)

OccurrenceLen(o) == o.endIndex - o.startIndex

\* An annotated part was produced for the occurrence o.
EmittedFor(o) ==
    \E n \in 1..Len(hp.parts) :
        /\ hp.parts[n].annotated
        /\ hp.parts[n].startIndex = o.startIndex
        /\ Len(hp.parts[n].text) = OccurrenceLen(o)

\* C2 - Segmentation totality: whatever the scanner found (overlapping, nested
\* or identical spans included), the texts of the parts the component returns,
\* concatenated in order, are exactly the prompt.
C2_SegmentationTotality ==
    hp.pc = "done" => ConcatText(hp.parts) = hp.prompt

\* C3 - Overlap resolution: of two occurrences that start at the same index
\* and differ in length, the longer gets an annotated part and the shorter
\* gets none.
C3_LongerWinsAtSameStart ==
    hp.pc = "done" =>
        \A i, j \in 1..Len(hp.keywordOccurrences) :
            LET a == hp.keywordOccurrences[i]
                b == hp.keywordOccurrences[j]
            IN  (a.startIndex = b.startIndex /\ OccurrenceLen(a) > OccurrenceLen(b))
                    => (EmittedFor(a) /\ ~EmittedFor(b))

\* The character of text at 0-based index j is a word character.
WordCharAt(text, j) == j >= 0 /\ j < Len(text) /\ IsWordChar(text[j + 1])

\* C8 - Whole-word matching: no occurrence the scanner reports touches a word
\* character of the prompt, neither just before its start nor just after its
\* end (so a keyword is never reported inside a longer word).
C8_WholeWordOnly ==
    hp.pc \in {"sort", "sweep", "done"} =>
        \A i \in 1..Len(hp.keywordOccurrences) :
            LET o == hp.keywordOccurrences[i]
            IN  /\ ~WordCharAt(hp.prompt, o.startIndex - 1)
                /\ ~WordCharAt(hp.prompt, o.endIndex)

\* C17 - Scanner totality: the scan never ends in an exception, whatever the
\* categories hold, and every occurrence it collects comes from a category
\* whose value is an array and from a keyword that is not empty.
C17_ScannerTotality ==
    /\ hp.pc # "threw"
    /\ \A i \in 1..Len(hp.keywordOccurrences) :
            LET o == hp.keywordOccurrences[i]
            IN  /\ OccurrenceLen(o) > 0
                /\ \E c \in 1..Len(hp.features.entries) :
                        /\ hp.features.entries[c].category = o.category
                        /\ hp.features.entries[c].isArray

\* The keyword occurs in the prompt at 0-based index p, case-insensitively and
\* as a whole word.
OccursAt(prompt, keyword, p) ==
    /\ p + Len(keyword) <= Len(prompt)
    /\ toLowerCase(substring(prompt, p, p + Len(keyword))) = toLowerCase(keyword)
    /\ ~WordCharAt(prompt, p - 1)
    /\ ~WordCharAt(prompt, p + Len(keyword))

\* C18 - Scanner completeness: for every category and every keyword that begins
\* and ends with a word character, every index of the prompt at which the
\* keyword occurs case-insensitively as a whole word is the start of a reported
\* occurrence of that length and category, occurrences of the same keyword that
\* overlap one another included.
C18_ScannerCompleteness ==
    hp.pc \in {"sort", "sweep", "done"} =>
        \A c \in 1..Len(hp.features.entries) :
            LET entry == hp.features.entries[c]
            IN  entry.isArray =>
                    \A k \in 1..Len(entry.keywords), p \in 0..Len(hp.prompt) :
                        LET keyword == entry.keywords[k]
                        IN  ( /\ keyword # <<>>
                              /\ IsWordChar(keyword[1])
                              /\ IsWordChar(keyword[Len(keyword)])
                              /\ OccursAt(hp.prompt, keyword, p) )
                            => \E i \in 1..Len(hp.keywordOccurrences) :
                                    /\ hp.keywordOccurrences[i].startIndex = p
                                    /\ hp.keywordOccurrences[i].endIndex = p + Len(keyword)
                                    /\ hp.keywordOccurrences[i].category = entry.category

\* The index just after the annotated part.
PartEnd(part) == part.startIndex + Len(part.text)

\* C20 - Overlap discard in the sweep: during and after the sweep, of any two
\* annotated parts the later one starts at or after the end of the earlier one
\* (so their starts strictly ascend and no two overlap), and the cursor
\* lastIndex is never behind the end of an annotated part already emitted.
C20_OverlapDiscard ==
    hp.pc \in {"sweep", "done"} =>
        /\ \A m, n \in 1..Len(hp.parts) :
                (m < n /\ hp.parts[m].annotated /\ hp.parts[n].annotated)
                    => PartEnd(hp.parts[m]) <= hp.parts[n].startIndex
        /\ \A n \in 1..Len(hp.parts) :
                hp.parts[n].annotated => hp.lastIndex >= PartEnd(hp.parts[n])

\* C23 - Occurrence surface text: every occurrence the scanner reports lies
\* inside the prompt and is not empty, its keyword field is the prompt's
\* characters from startIndex up to endIndex, and those characters are, case
\* folded, a keyword of the occurrence's category.
C23_OccurrenceSurfaceText ==
    hp.pc \in {"sort", "sweep", "done"} =>
        \A i \in 1..Len(hp.keywordOccurrences) :
            LET o == hp.keywordOccurrences[i]
            IN  /\ 0 <= o.startIndex
                /\ o.startIndex < o.endIndex
                /\ o.endIndex <= Len(hp.prompt)
                /\ o.keyword = substring(hp.prompt, o.startIndex, o.endIndex)
                /\ \E c \in 1..Len(hp.features.entries) :
                        /\ hp.features.entries[c].category = o.category
                        /\ \E k \in 1..Len(hp.features.entries[c].keywords) :
                                toLowerCase(hp.features.entries[c].keywords[k])
                                    = toLowerCase(o.keyword)

\* C24 - Plain rendering: when the features are absent or the scan found no
\* occurrence, the component returns no highlighted part and at most one part;
\* that part is plain and its text is the whole prompt, and for an empty prompt
\* nothing with any text is returned.
C24_PlainRendering ==
    (hp.pc = "done" /\ (~hp.features.present \/ hp.keywordOccurrences = <<>>)) =>
        /\ \A n \in 1..Len(hp.parts) : ~hp.parts[n].annotated
        /\ Len(hp.parts) <= 1
        /\ ConcatText(hp.parts) = hp.prompt
        /\ hp.prompt # <<>> => Len(hp.parts) = 1

\* Features with a keyword that the prompt does not hold: one plain part.
C24_Witness ==
    /\ hp.pc = "done"
    /\ hp.features.present
    /\ \E c \in 1..Len(hp.features.entries) :
            /\ hp.features.entries[c].isArray
            /\ hp.features.entries[c].keywords = << <<"a", "a">> >>
    /\ hp.keywordOccurrences = <<>>
    /\ hp.prompt = <<"a", " ", "A">>
    /\ Len(hp.parts) = 1

-----------------------------------------------------------------------------
(* Properties of the generation round (checked under Spec) *)

\* C1 - Commit atomicity on failure: after a round that ended in failure
\* (transport error, non-success status, or a body missing required fields),
\* results and extractedFeatures are what they were before the submit, and the
\* failure handling left both selections as they were.
C1_FailureLeavesStateUnchanged ==
    (last.ev = "failed" /\ last.kind \in {"transport", "status", "missing"}) =>
        /\ results = last.preResults
        /\ extractedFeatures = last.preFeatures
        /\ selectedImages = last.images
        /\ selectedKeywords = last.keywords

\* C4 - Post-commit reset: right after a round commits, both selections are
\* empty, whatever they held at submit and whatever was toggled in flight.
C4_PostCommitReset ==
    last.ev = "committed" => (selectedImages = <<>> /\ selectedKeywords = <<>>)

\* A commit that found both selections non-empty and changed since the submit.
C4_Witness ==
    /\ last.ev = "committed"
    /\ last.images # <<>>
    /\ last.keywords # <<>>
    /\ last.changed

\* C5 - Validation condition: a submit fails validation exactly when the
\* description is empty or blank and both selections are empty.
C5_ValidationCondition ==
    last.ev \in {"invalid", "submitted"} =>
        ((last.ev = "invalid") <=>
            (trim(description) = <<>> /\ last.images = <<>> /\ last.keywords = <<>>))

\* C6 - Validation short-circuit: after a submit that failed validation no
\* request is outstanding, loading is false, the error is set, and results,
\* extractedFeatures and both selections are what they were before the submit.
C6_ValidationShortCircuit ==
    last.ev = "invalid" =>
        /\ inflight = <<>>
        /\ ~loading
        /\ error # "null"
        /\ results = last.preResults
        /\ extractedFeatures = last.preFeatures
        /\ selectedImages = last.images
        /\ selectedKeywords = last.keywords

\* C7 - Toggle is an involution on sets: after the same toggle handler ran
\* twice in succession for the same value, the selection has the members it had
\* before the two toggles.
C7_ToggleTwiceSameSet ==
    last.twice =>
        IF last.ev = "handleImageSelect"
            THEN ToSet(selectedImages) = ToSet(last.base)
            ELSE ToSet(selectedKeywords) = ToSet(last.base)

\* Two toggles of the first of two selected keywords: same members, new order.
C7_Witness ==
    /\ last.twice
    /\ last.ev = "handleFeatureSelect"
    /\ Len(last.base) = 2
    /\ last.arg = last.base[1]
    /\ selectedKeywords # last.base

\* C9 - Single round in flight: at most one request is outstanding in any
\* state, and while it is outstanding the generate button is disabled.
C9_SingleRoundInFlight ==
    /\ Len(inflight) <= 1
    /\ Len(inflight) = 1 =>
            ButtonDisabled(variant, loading, description, selectedImages, selectedKeywords)

\* A round is outstanding and only the loading flag keeps the button disabled.
C9_Witness ==
    /\ Len(inflight) = 1
    /\ description # <<>>
    /\ selectedImages # <<>>
    /\ last.ev = "handleImageSelect"

\* C11 - Return to Idle: loading is true exactly while a request is outstanding,
\* and the step that ends a round (commit, transport error, non-success status,
\* unreadable or malformed body) leaves loading false with nothing outstanding.
C11_ReturnToIdle ==
    /\ loading <=> inflight # <<>>
    /\ last.ev \in {"failed", "committed"} => (~loading /\ inflight = <<>>)

\* A round that failed on a malformed body after it had written results.
C11_Witness ==
    /\ last.ev = "failed"
    /\ last.kind = "malformed"
    /\ results # last.preResults
    /\ ~loading

\* C12 - Error lifetime: a toggle or a description edit leaves the error as it
\* was; a submit that sends a request leaves no error set, and a submit that
\* fails validation leaves only its own validation message.
C12_ErrorLifetime ==
    /\ last.ev \in {"handleImageSelect", "handleFeatureSelect", "setDescription"}
            => error = last.err
    /\ last.ev = "submitted" => error = "null"
    /\ last.ev = "invalid" => error = "validation"

\* A submit made while the error of a failed round was on display.
C12_Witness ==
    /\ last.ev = "submitted"
    /\ last.err = "failed"
    /\ loading

\* C13 - Request payload content: the body of a request that was just sent
\* holds the description as it is, the selected prompts and the selected
\* keywords, each list equal to the selection (members and order).
C13_RequestPayload ==
    last.ev = "submitted" =>
        LET body == inflight[Len(inflight)].body
        IN  /\ body.description = description
            /\ SentImages(body) = selectedImages
            /\ body.liked_style_keywords = selectedKeywords

\* A request sent with a description, a selected prompt and two keywords that
\* were selected against their order in the prompt.
C13_Witness ==
    /\ last.ev = "submitted"
    /\ description # <<>>
    /\ selectedImages # <<>>
    /\ selectedKeywords = << <<"a">>, <<"A">> >>
    /\ inflight[Len(inflight)].body.hasFeedback

\* C14 - Atomic pair replacement: in the revisions that hold a lookup, a round
\* that ended in failure wrote both of results and extractedFeatures or neither
\* of them (a commit writes both); no round leaves a new result list next to
\* the lookup of the round before.
C14_AtomicPairReplacement ==
    (ReadsPrompts(variant) /\ last.ev = "failed") =>
        ((results = last.preResults) <=> (extractedFeatures = last.preFeatures))

\* C15 - Replace, not merge: right after a commit, results is exactly the
\* result list of the response, and extractedFeatures has entries for no other
\* prompt than those the response lists.
C15_ReplaceNotMerge ==
    last.ev = "committed" =>
        /\ results = last.dataResults
        /\ ReadsPrompts(variant) => DOMAIN extractedFeatures \subseteq last.dataPrompts

\* A commit over results and a lookup of an earlier round, by a response with
\* fewer results and no prompt.
C15_Witness ==
    /\ last.ev = "committed"
    /\ last.preHeld
    /\ Len(results) = 1
    /\ extractedFeatures = EmptyLookup

-----------------------------------------------------------------------------
(* Properties of the response shapes (checked under SpecWire) *)

\* A body that has everything its shape is defined to have.
WellFormed(served) ==
    /\ served.present
    /\ served.answer.hasResults
    /\ served.answer.promptsKind = "list"
    /\ served.shape = "alternate" => served.answer.hasExtracted

\* The lookup part_000 makes of the prompts when they come in the combined shape.
CombinedLookup(answer) == FeaturesByPrompt("part_000", WireShape("combined", answer))

\* A round has ended on a well-formed body.
EndedOnWellFormed ==
    /\ last.ev \in {"committed", "failed"}
    /\ WellFormed(last.served)

C19_SelectionIndependence ==
    [][ /\ last'.ev = "handleImageSelect" =>
                UNCHANGED <<selectedKeywords, results, extractedFeatures, description,
                            loading, error>>
        /\ last'.ev = "handleFeatureSelect" =>
                UNCHANGED <<selectedImages, results, extractedFeatures, description,
                            loading, error>> ]_vars

\* An image toggle made while a keyword is selected, a description is typed
\* and the error of a failed round is on display.
C19_Witness ==
    /\ last.ev = "handleImageSelect"
    /\ selectedKeywords # <<>>
    /\ selectedImages # <<>>
    /\ description # <<>>
    /\ extractedFeatures # EmptyLookup
    /\ error = "failed"

\* C21 - Duplicate prompt text is last-write-wins: after a commit of a body in
\* the revision's own shape, the lookup has an entry for each text the response
\* lists and for nothing else, and the entry of a text is the feature object of
\* its last listing ({} when that listing has none).
C21_LastWriteWins ==
    ( /\ last.ev = "committed"
      /\ last.served.present
      /\ last.served.shape = ShapeServed(variant) ) =>
        LET prompts == last.served.answer.prompts
        IN  /\ DOMAIN extractedFeatures = {prompts[i].text : i \in 1..Len(prompts)}
            /\ \A i \in 1..Len(prompts) :
                    (\A j \in (i + 1)..Len(prompts) : prompts[j].text # prompts[i].text)
                        => extractedFeatures[prompts[i].text] =
                                IF prompts[i].hasFeatures THEN prompts[i].features
                                ELSE EmptyFeatures

\* A commit of a response that lists one text twice, first with features and
\* then without.
C21_Witness ==
    /\ last.ev = "committed"
    /\ last.served.present
    /\ last.served.shape = ShapeServed(variant)
    /\ Len(last.served.answer.prompts) = 2
    /\ last.served.answer.prompts[1].text = last.served.answer.prompts[2].text
    /\ last.served.answer.prompts[1].hasFeatures
    /\ ~last.served.answer.prompts[2].hasFeatures
    /\ \A p \in DOMAIN extractedFeatures : extractedFeatures[p] = EmptyFeatures

\* The prompts of the gallery and the parts it shows for one of them.
GalleryPrompts == {results[i].prompt : i \in 1..Len(results)}

GalleryParts(prompt) ==
    ToSet(RenderedParts(variant, prompt, FeaturesFor(extractedFeatures, prompt),
                        selectedKeywords))

\* C22 - Keyword selection is by exact surface string: a step of
\* handleFeatureSelect adds its argument to selectedKeywords when it was no
\* member and removes it when it was, and changes the membership of no other
\* string; every highlighted part of the gallery shows the prompt's own
\* characters and is shown selected exactly when that text is a member of
\* selectedKeywords.
C22_ExactSurfaceSelection ==
    /\ last.ev = "handleFeatureSelect" =>
            ToSet(selectedKeywords) =
                IF last.arg \in ToSet(last.keywords)
                    THEN ToSet(last.keywords) \ {last.arg}
                    ELSE ToSet(last.keywords) \cup {last.arg}
    /\ variant # "App.js" =>
            \A prompt \in GalleryPrompts : \A part \in GalleryParts(prompt) :
                part.annotated =>
                    /\ part.text = substring(prompt, part.startIndex,
                                              part.startIndex + Len(part.text))
                    /\ part.isSelected <=> part.text \in ToSet(selectedKeywords)

\* "A" toggled on while "a" was selected: both are members, and the gallery
\* shows a selected "A".
C22_Witness ==
    /\ last.ev = "handleFeatureSelect"
    /\ last.arg = <<"A">>
    /\ last.keywords = << <<"a">> >>
    /\ selectedKeywords = << <<"a">>, <<"A">> >>
    /\ \E prompt \in GalleryPrompts : \E part \in GalleryParts(prompt) :
            part.annotated /\ part.text = <<"A">> /\ part.isSelected

\* No string is held twice.
NoDuplicates(list) == \A i, j \in 1..Len(list) : list[i] = list[j] => i = j

\* C25 - No duplicates in the selections: in every reachable state neither
\* selectedImages nor selectedKeywords holds the same string twice.
C25_SelectionsHoldNoDuplicates ==
    /\ NoDuplicates(selectedImages)
    /\ NoDuplicates(selectedKeywords)

\* A member toggled off and on again while another member stayed, after a
\* round that failed.
C25_Witness ==
    /\ last.ev = "handleFeatureSelect"
    /\ last.twice
    /\ Len(selectedKeywords) = 2
    /\ selectedImages # <<>>
    /\ error = "failed"

\* C26 - A selection refers to held results: in every reachable state every
\* string of selectedImages is the prompt of some item of results.
C26_SelectionRefersToHeldResults ==
    \A i \in 1..Len(selectedImages) :
        \E j \in 1..Len(results) : results[j].prompt = selectedImages[i]

\* C27 - The payload is a snapshot taken at submit: no step changes the body of
\* a request that stays outstanding, a toggle or a description edit leaves the
\* outstanding requests as they are, and the step that commits a round leaves
\* both selections empty, so that nothing toggled while the round was
\* outstanding is left to be sent later.
C27_PayloadIsSnapshot ==
    [][ /\ \A k \in 1..Len(inflight) :
                k <= Len(inflight') => inflight'[k].body = inflight[k].body
        /\ last'.ev \in {"handleImageSelect", "handleFeatureSelect", "setDescription"}
                => inflight' = inflight
        /\ last'.ev = "committed"
                => (selectedImages' = <<>> /\ selectedKeywords' = <<>>) ]_vars

\* A request is outstanding and the description and both selections have
\* changed since it was sent; the last change was a keyword toggle.
C27_Witness ==
    /\ Len(inflight) = 1
    /\ last.ev = "handleFeatureSelect"
    /\ inflight[1].body.hasFeedback
    /\ inflight[1].body.description # description
    /\ inflight[1].body.liked_prompts # selectedImages
    /\ inflight[1].body.liked_style_keywords # selectedKeywords

====
